---- MODULE Spec2Model ----
(***************************************************************************)
(* Model of dream_gui.py: the job submission form, the pending-job queue, *)
(* the dispatch discipline (enqueue_job / poll_queue / process_next_job)  *)
(* running on the Tk main loop, and the pipeline run_job executed by one  *)
(* daemon thread per dispatched job.                                      *)
(*                                                                         *)
(* Callbacks of the Tk main loop (enqueue_job, poll_queue, a combobox     *)
(* selection) run to completion one after the other, so each is one       *)
(* action.  run_job runs on its own thread and is modelled statement by   *)
(* statement, so that every main-loop callback can interleave with it.    *)
(***************************************************************************)
EXTENDS Integers, Sequences, FiniteSets, TLC

\* ---------------------------------------------------------------- bounds
\* Number of jobs enqueue_job accepts: under Spec, under SpecOrder, under
\* SpecConfig and under SpecPreset.
MaxJobs == 2
MaxOrderJobs == 3
MaxConfigJobs == 1
MaxPresetJobs == 2
\* ... and under SpecOptions.
MaxOptionJobs == 1

\* ------------------------------------------------------------- constants
None == "None"

\* No value, where the value is a path, a tuple or a record.
Nothing == <<>>

\* messagebox before any dialog was shown.
NoDialog == [kind |-> "none", title |-> "", text |-> <<>>, paths |-> <<>>]

\* config_options of setup_ui (the values of the read-only combobox).
config_options ==
    {"auto", "image.yaml", "image_sai.yaml", "imagedream.yaml", "text.yaml", "text_mv.yaml"}

\* The values of the voxel resolution combobox of setup_ui.
voxel_res_values == {128, 256, 512}

\* What the user can type into a prompt entry: sequences of characters, " "
\* being white space.
TextInputs == {<<>>, <<" ">>, <<"a">>, <<" ", "a", " ">>}
\* An entry left empty or filled with white space.
BlankInputs == {<<>>, <<" ">>}

\* What the user can type into the output folder entry.  Only "out" is a
\* directory of the file system.
OutDirInputs == {"out", "missing"}

\* Ways the external generation process can end: (returncode, stderr).
SubprocessResults ==
    {[returncode |-> 0, stderr |-> ""],
     [returncode |-> 1, stderr |-> "CUDA out of memory"]}

\* Ways obj_to_vox can end: normally, or with one of its exceptions.
ObjToVoxResults ==
    {None, "You must install 'obj2vox' package (pip install obj2vox)!", "obj2vox error"}

\* Ways show_preview can end: the label gets an image, or one of two texts.
PreviewResults == {"image", "3D preview not available.", "Preview error"}

VARIABLES
    jobs,               \* self.jobs: the queue.Queue of pending job tuples
    job_list,           \* self.job_list: the entries of the Listbox
    processing,         \* self.processing
    config_preset,      \* self.config_preset (the combobox variable)
    preview_mesh_path,  \* self.preview_mesh_path
    preview_label,      \* what self.preview_label shows
    fs,                 \* the file system: directory |-> set of entries
    threads,            \* the live threading.Thread objects running run_job
    messagebox,         \* the last dialog run_job has shown (showinfo / showerror)
    notified,           \* history: the jobs a dialog was shown for, in order
    submitResult,       \* how the last click on Generate ended
    nextSeq,            \* history: sequence number of the next accepted job
    genLog,             \* history: jobs whose generation tool was started, in order
    finished            \* history: jobs whose run_job has returned

vars == <<jobs, job_list, processing, config_preset, preview_mesh_path, preview_label,
          fs, threads, messagebox, notified, submitResult, nextSeq, genLog,
          finished>>

\* ------------------------------------------------------- pure functions

IsSpace(c) == c = " "

\* str.lstrip()
RECURSIVE LStrip(_)
LStrip(s) == IF s # <<>> /\ IsSpace(Head(s)) THEN LStrip(Tail(s)) ELSE s

\* str.rstrip()
RECURSIVE RStrip(_)
RStrip(s) ==
    IF s # <<>> /\ IsSpace(s[Len(s)]) THEN RStrip(SubSeq(s, 1, Len(s) - 1)) ELSE s

\* Variant: the entry is used as typed.
strip_nothing(s) == s

\* str.strip()
strip(s) == RStrip(LStrip(s))

\* os.path.join(a, b)
path_join(a, b) == <<a, b>>

\* f"dreamasset_{n}"
MeshName(n) == <<"dreamasset", n>>

\* os.listdir(out_dir); defined only when the directory exists
listdir(out_dir) == fs[out_dir]

\* os.path.exists for a directory
DirExists(out_dir) == out_dir \in DOMAIN fs

\* Variant: the text-only and the image-only branch are swapped.
SelectConfigSwapped(text_prompt, image_path, preset) ==
    IF preset # "" /\ preset # "auto"
    THEN path_join("configs", preset)
    ELSE IF text_prompt # <<>> /\ image_path # <<>>
         THEN path_join("configs", "imagedream.yaml")
         ELSE IF text_prompt # <<>>
              THEN path_join("configs", "image.yaml")
              ELSE path_join("configs", "text.yaml")

\* Config selection of run_dreamgaussian (lines 31-41).
SelectConfig(text_prompt, image_path, preset) ==
    IF preset # "" /\ preset # "auto"
    THEN path_join("configs", preset)
    ELSE IF text_prompt # <<>> /\ image_path # <<>>
         THEN path_join("configs", "imagedream.yaml")
         ELSE IF text_prompt # <<>>
              THEN path_join("configs", "text.yaml")
              ELSE path_join("configs", "image.yaml")

\* Return value of run_dreamgaussian: the .obj and the .png path.
ObjPath(out_dir, mesh_name) == path_join(out_dir, <<mesh_name, ".obj">>)
TexPath(out_dir, mesh_name) == path_join(out_dir, <<mesh_name, ".png">>)

\* vox_path of run_job: f"{mesh_name}_{voxel_res}.vox" in out_dir
VoxPath(out_dir, mesh_name, voxel_res) == path_join(out_dir, <<mesh_name, voxel_res, ".vox">>)

\* Writing a file: the directory gets an entry of that name (once).
WriteFiles(files, paths) ==
    [d \in DOMAIN files |-> files[d] \cup {p[2] : p \in {q \in paths : q[1] = d}}]

\* ----------------------------------------------------------------- Init

Init ==
    /\ jobs = <<>>
    /\ job_list = <<>>
    /\ processing = FALSE
    /\ config_preset = "auto"
    /\ preview_mesh_path = Nothing
    /\ preview_label = [text |-> "No preview yet.", image |-> Nothing]
    /\ fs = [d \in {"out"} |-> {}]
    /\ threads = {}
    /\ messagebox = NoDialog
    /\ notified = <<>>
    /\ submitResult = "none"
    /\ nextSeq = 1
    /\ genLog = <<>>
    /\ finished = {}

\* -------------------------------------------------- main-loop callbacks

\* The thread object created by process_next_job for a job tuple.  vox_call
\* holds the arguments of the call of obj_to_vox once it is made and
\* preview_result how show_preview ended; before is history: what the
\* preview showed when the thread was created.
NewThread(job) ==
    [job |-> job, pc |-> "start", preset |-> None, config |-> Nothing,
     result |-> Nothing, out_paths |-> <<>>, ex |-> None,
     vox_call |-> Nothing, preview_result |-> None,
     before |-> [preview_mesh_path |-> preview_mesh_path, preview_label |-> preview_label]]

\* Variant: job_list.delete(tk.END)
ListDeleteEnd(l) == IF l = <<>> THEN l ELSE SubSeq(l, 1, Len(l) - 1)

\* job_list.delete(0)
ListDelete0(l) == IF l = <<>> THEN l ELSE Tail(l)

\* Variant: self.processing is not set.
process_next_job_unmarked(q, l) ==
    IF q = <<>>
    THEN /\ jobs' = q
         /\ job_list' = l
         /\ UNCHANGED <<processing, threads>>
    ELSE /\ jobs' = Tail(q)
         /\ job_list' = ListDelete0(l)
         /\ threads' = threads \cup {NewThread(Head(q))}
         /\ UNCHANGED processing

\* Variant: the job submitted last is taken.
process_next_job_lifo(q, l) ==
    IF q = <<>>
    THEN /\ jobs' = q
         /\ job_list' = l
         /\ UNCHANGED <<processing, threads>>
    ELSE /\ processing' = TRUE
         /\ jobs' = SubSeq(q, 1, Len(q) - 1)
         /\ job_list' = ListDelete0(l)
         /\ threads' = threads \cup {NewThread(q[Len(q)])}

\* Variant: the job at the head of the queue is started but left in the queue.
process_next_job_peek(q, l) ==
    IF q = <<>>
    THEN /\ jobs' = q
         /\ job_list' = l
         /\ UNCHANGED <<processing, threads>>
    ELSE /\ processing' = TRUE
         /\ jobs' = q
         /\ job_list' = ListDelete0(l)
         /\ threads' = threads \cup {NewThread(Head(q))}

\* process_next_job, applied to the queue q and the list box l the caller
\* has produced so far.
process_next_job(q, l) ==
    IF q = <<>>
    THEN /\ jobs' = q
         /\ job_list' = l
         /\ UNCHANGED <<processing, threads>>
    ELSE /\ processing' = TRUE
         /\ jobs' = Tail(q)
         /\ job_list' = ListDelete0(l)
         /\ threads' = threads \cup {NewThread(Head(q))}

\* The user clicks Generate with the form holding these values.
enqueue_job(text_in, img_in, out_dir, mesh_only, texture_only, mesh_and_texture, voxel_mode, voxel_res) ==
    LET text == strip(text_in)
        img == strip(img_in)
    IN  IF text = <<>> /\ img = <<>>
        THEN \* messagebox.showwarning, return
             /\ submitResult' = "rejected"
             /\ UNCHANGED <<jobs, job_list, processing, threads, nextSeq>>
        ELSE IF ~DirExists(out_dir)
        THEN \* os.listdir raises; Tk reports the exception of the callback
             /\ submitResult' = "error"
             /\ UNCHANGED <<jobs, job_list, processing, threads, nextSeq>>
        ELSE /\ LET mesh_name == MeshName(Cardinality(listdir(out_dir)))
                    job == [seq |-> nextSeq, submitted_preset |-> config_preset,
                            text |-> text, img |-> img, out_dir |-> out_dir,
                            mesh_name |-> mesh_name, mesh_only |-> mesh_only,
                            texture_only |-> texture_only,
                            mesh_and_texture |-> mesh_and_texture,
                            voxel_mode |-> voxel_mode, voxel_res |-> voxel_res]
                    q == Append(jobs, job)
                    l == Append(job_list, <<"Job", Len(job_list) + 1, mesh_name>>)
                IN  IF ~processing
                    THEN process_next_job(q, l)
                    ELSE /\ jobs' = q
                         /\ job_list' = l
                         /\ UNCHANGED <<processing, threads>>
             /\ submitResult' = "accepted"
             /\ nextSeq' = nextSeq + 1

\* A click on Generate, the form holding any of the given values; at most
\* max jobs are accepted.
Generate(max, Texts, Images, OutDirs, Outputs, VoxelModes, VoxelRes) ==
    /\ \E text_in \in Texts, img_in \in Images, out_dir \in OutDirs, o \in Outputs,
          voxel_mode \in VoxelModes, voxel_res \in VoxelRes :
            /\ enqueue_job(text_in, img_in, out_dir, o[1], o[2], o[3], voxel_mode, voxel_res)
            /\ nextSeq' <= max + 1
    /\ UNCHANGED <<config_preset, preview_mesh_path, preview_label, fs, messagebox,
                   notified, genLog, finished>>

\* The 200 ms timer fires.
poll_queue ==
    /\ IF ~processing /\ jobs # <<>>
       THEN process_next_job(jobs, job_list)
       ELSE UNCHANGED <<jobs, job_list, processing, threads>>
    /\ UNCHANGED <<config_preset, preview_mesh_path, preview_label, fs, messagebox, notified,
                   submitResult, nextSeq, genLog, finished>>

\* The user picks a value in the Config Preset combobox.
select_config_preset(Presets) ==
    /\ \E p \in Presets : config_preset' = p
    /\ UNCHANGED <<jobs, job_list, processing, preview_mesh_path, preview_label, fs,
                   threads, messagebox, notified, submitResult, nextSeq, genLog, finished>>

\* ------------------------------------------------- run_job, on its thread

\* The thread t goes on as t2.
Goto(t, t2) == threads' = (threads \ {t}) \cup {t2}

\* line 225: config_preset = self.config_preset.get()
run_job_get_preset(t) ==
    /\ t.pc = "start"
    /\ Goto(t, [t EXCEPT !.pc = "run_dreamgaussian", !.preset = config_preset])
    /\ UNCHANGED <<jobs, job_list, processing, config_preset, preview_mesh_path,
                   preview_label, fs, messagebox, notified, submitResult, nextSeq, genLog, finished>>

\* run_dreamgaussian up to the start of the external process.
run_dreamgaussian_invoke(t) ==
    /\ t.pc = "run_dreamgaussian"
    /\ Goto(t, [t EXCEPT !.pc = "subprocess",
                         !.config = SelectConfig(t.job.text, t.job.img, t.preset)])
    /\ genLog' = Append(genLog, t.job.seq)
    /\ UNCHANGED <<jobs, job_list, processing, config_preset, preview_mesh_path,
                   preview_label, fs, messagebox, notified, submitResult, nextSeq, finished>>

\* Variant: the texture is listed for mesh_and_texture only.
OutPaths_both_only(job) ==
    <<ObjPath(job.out_dir, job.mesh_name)>> \o
    (IF job.mesh_and_texture
     THEN <<TexPath(job.out_dir, job.mesh_name)>> ELSE <<>>)

\* out_paths of run_job after a successful generation (lines 227-229).
OutPaths(job) ==
    <<ObjPath(job.out_dir, job.mesh_name)>> \o
    (IF job.texture_only \/ job.mesh_and_texture
     THEN <<TexPath(job.out_dir, job.mesh_name)>> ELSE <<>>)

\* Variant: the return code is not looked at.
run_dreamgaussian_return_unchecked(t) ==
    /\ t.pc = "subprocess"
    /\ \E r \in SubprocessResults :
        /\ Goto(t, [t EXCEPT !.pc = IF t.job.voxel_mode THEN "obj_to_vox" ELSE "preview",
                             !.result = <<r>>, !.out_paths = OutPaths(t.job)])
        /\ fs' = WriteFiles(fs, {ObjPath(t.job.out_dir, t.job.mesh_name),
                                 TexPath(t.job.out_dir, t.job.mesh_name)})
    /\ UNCHANGED <<jobs, job_list, processing, config_preset, preview_mesh_path,
                   preview_label, messagebox, notified, submitResult, nextSeq, genLog,
                   finished>>

\* Variant: the conversion is made whatever self.voxel_mode was.
run_dreamgaussian_return_always_vox(t) ==
    /\ t.pc = "subprocess"
    /\ \E r \in SubprocessResults :
        IF r.returncode # 0
        THEN /\ Goto(t, [t EXCEPT !.pc = "except", !.result = <<r>>,
                                  !.ex = "DreamGaussian failed!"])
             /\ UNCHANGED fs
        ELSE /\ Goto(t, [t EXCEPT !.pc = "obj_to_vox",
                                  !.result = <<r>>, !.out_paths = OutPaths(t.job)])
             /\ fs' = WriteFiles(fs, {ObjPath(t.job.out_dir, t.job.mesh_name),
                                      TexPath(t.job.out_dir, t.job.mesh_name)})
    /\ UNCHANGED <<jobs, job_list, processing, config_preset, preview_mesh_path,
                   preview_label, messagebox, notified, submitResult, nextSeq, genLog, finished>>

\* The external process ends; run_dreamgaussian returns the paths or raises.
run_dreamgaussian_return(t) ==
    /\ t.pc = "subprocess"
    /\ \E r \in SubprocessResults :
        IF r.returncode # 0
        THEN /\ Goto(t, [t EXCEPT !.pc = "except", !.result = <<r>>,
                                  !.ex = "DreamGaussian failed!"])
             /\ UNCHANGED fs
        ELSE /\ Goto(t, [t EXCEPT !.pc = IF t.job.voxel_mode THEN "obj_to_vox" ELSE "preview",
                                  !.result = <<r>>, !.out_paths = OutPaths(t.job)])
             /\ fs' = WriteFiles(fs, {ObjPath(t.job.out_dir, t.job.mesh_name),
                                      TexPath(t.job.out_dir, t.job.mesh_name)})
    /\ UNCHANGED <<jobs, job_list, processing, config_preset, preview_mesh_path,
                   preview_label, messagebox, notified, submitResult, nextSeq, genLog, finished>>

\* lines 232-235: the voxel conversion of a job with voxel_mode set.
run_job_obj_to_vox(t) ==
    /\ t.pc = "obj_to_vox"
    /\ LET vox_path == VoxPath(t.job.out_dir, t.job.mesh_name, t.job.voxel_res)
           call == [obj_path |-> ObjPath(t.job.out_dir, t.job.mesh_name),
                    vox_path |-> vox_path, resolution |-> t.job.voxel_res]
       IN  \E r \in ObjToVoxResults :
            IF r # None
            THEN /\ Goto(t, [t EXCEPT !.pc = "except", !.ex = r, !.vox_call = <<call>>])
                 /\ UNCHANGED fs
            ELSE /\ Goto(t, [t EXCEPT !.pc = "preview", !.vox_call = <<call>>,
                                      !.out_paths = Append(t.out_paths, vox_path)])
                 /\ fs' = WriteFiles(fs, {vox_path})
    /\ UNCHANGED <<jobs, job_list, processing, config_preset, preview_mesh_path,
                   preview_label, messagebox, notified, submitResult, nextSeq, genLog, finished>>

\* line 237: self.preview_mesh_path = obj_path
run_job_set_preview_path(t) ==
    /\ t.pc = "preview"
    /\ preview_mesh_path' = ObjPath(t.job.out_dir, t.job.mesh_name)
    /\ Goto(t, [t EXCEPT !.pc = "show_preview"])
    /\ UNCHANGED <<jobs, job_list, processing, config_preset, preview_label, fs,
                   messagebox, notified, submitResult, nextSeq, genLog, finished>>

\* line 238: self.show_preview(obj_path); it catches its own exceptions.
\* preview_label.config sets the one option it is given and keeps the other.
show_preview(t) ==
    /\ t.pc = "show_preview"
    /\ \E r \in PreviewResults :
        /\ preview_label' =
            IF r = "image"
            THEN [preview_label EXCEPT !.image = ObjPath(t.job.out_dir, t.job.mesh_name)]
            ELSE [preview_label EXCEPT !.text = r]
        /\ Goto(t, [t EXCEPT !.pc = "showinfo", !.preview_result = r])
    /\ UNCHANGED <<jobs, job_list, processing, config_preset, preview_mesh_path, fs,
                   messagebox, notified, submitResult, nextSeq, genLog, finished>>

\* line 239: messagebox.showinfo("Success", ...)
run_job_showinfo(t) ==
    /\ t.pc = "showinfo"
    /\ messagebox' = [kind |-> "showinfo", title |-> "Success",
                      text |-> <<"Generation complete!", "Files:">>, paths |-> t.out_paths]
    /\ notified' = Append(notified, t.job.seq)
    /\ Goto(t, [t EXCEPT !.pc = "finally"])
    /\ UNCHANGED <<jobs, job_list, processing, config_preset, preview_mesh_path,
                   preview_label, fs, submitResult, nextSeq, genLog, finished>>

\* Variant: self.processing is cleared before the error dialog is shown.
run_job_except_clears_marker(t) ==
    /\ t.pc = "except"
    /\ processing' = FALSE
    /\ messagebox' = [kind |-> "showerror", title |-> "Error",
                      text |-> <<"Job failed: ", t.ex>>, paths |-> <<>>]
    /\ notified' = Append(notified, t.job.seq)
    /\ Goto(t, [t EXCEPT !.pc = "finally"])
    /\ UNCHANGED <<jobs, job_list, config_preset, preview_mesh_path,
                   preview_label, fs, submitResult, nextSeq, genLog, finished>>

\* Variant: the failure of a job resets self.preview_mesh_path.
run_job_except_clears_preview(t) ==
    /\ t.pc = "except"
    /\ preview_mesh_path' = Nothing
    /\ messagebox' = [kind |-> "showerror", title |-> "Error",
                      text |-> <<"Job failed: ", t.ex>>, paths |-> <<>>]
    /\ notified' = Append(notified, t.job.seq)
    /\ Goto(t, [t EXCEPT !.pc = "finally"])
    /\ UNCHANGED <<jobs, job_list, processing, config_preset,
                   preview_label, fs, submitResult, nextSeq, genLog, finished>>

\* lines 240-241: messagebox.showerror("Error", f"Job failed: {ex}")
run_job_except(t) ==
    /\ t.pc = "except"
    /\ messagebox' = [kind |-> "showerror", title |-> "Error",
                      text |-> <<"Job failed: ", t.ex>>, paths |-> <<>>]
    /\ notified' = Append(notified, t.job.seq)
    /\ Goto(t, [t EXCEPT !.pc = "finally"])
    /\ UNCHANGED <<jobs, job_list, processing, config_preset, preview_mesh_path,
                   preview_label, fs, submitResult, nextSeq, genLog, finished>>

\* Variant: self.processing is cleared at the end of the try block only.
run_job_finally_on_success(t) ==
    /\ t.pc = "finally"
    /\ processing' = IF t.ex = None THEN FALSE ELSE processing
    /\ threads' = threads \ {t}
    /\ finished' = finished \cup {t.job.seq}
    /\ UNCHANGED <<jobs, job_list, config_preset, preview_mesh_path, preview_label, fs,
                   messagebox, notified, submitResult, nextSeq, genLog>>

\* lines 242-243: self.processing = False, and the thread ends.
run_job_finally(t) ==
    /\ t.pc = "finally"
    /\ processing' = FALSE
    /\ threads' = threads \ {t}
    /\ finished' = finished \cup {t.job.seq}
    /\ UNCHANGED <<jobs, job_list, config_preset, preview_mesh_path, preview_label, fs,
                   messagebox, notified, submitResult, nextSeq, genLog>>

\* open_preview_window ('Open 3D Viewer') when self.preview_mesh_path is path:
\* the warning it shows, or the mesh it opens a viewer window for.
open_preview_window(path) ==
    IF path = Nothing
    THEN [showwarning |-> "No mesh generated yet.", show_mesh_in_window |-> Nothing]
    ELSE [showwarning |-> "", show_mesh_in_window |-> path]

\* One step of one run_job thread.
run_job ==
    \E t \in threads :
        \/ run_job_get_preset(t)
        \/ run_dreamgaussian_invoke(t)
        \/ run_dreamgaussian_return(t)
        \/ run_job_obj_to_vox(t)
        \/ run_job_set_preview_path(t)
        \/ show_preview(t)
        \/ run_job_showinfo(t)
        \/ run_job_except(t)
        \/ run_job_finally(t)

\* ------------------------------------------------------- specifications

\* The values of the three output check boxes when the window opens
\* (mesh_only, texture_only, mesh_and_texture).
DefaultOutputs == {<<TRUE, FALSE, TRUE>>}

\* Spec: every way a click on Generate can end; text jobs with and without
\* voxel export, the preset left alone.
EnqueueJob ==
    Generate(MaxJobs, TextInputs, BlankInputs, OutDirInputs, DefaultOutputs, BOOLEAN, {256})

\* A callback of the Tk main loop.
MainLoop == EnqueueJob \/ poll_queue

Next == EnqueueJob \/ poll_queue \/ run_job

Spec == Init /\ [][Next]_vars

\* The timer set by self.after(200, self.poll_queue) keeps firing, and a
\* started thread keeps running: the external calls return and the dialogs
\* are dismissed.
FairSpec == Spec /\ WF_vars(poll_queue) /\ WF_vars(run_job)

\* SpecOrder: more text jobs, so that several wait in the queue at once.
EnqueueOrder ==
    Generate(MaxOrderJobs, {<<>>, <<"a">>}, {<<>>}, {"out"}, DefaultOutputs, BOOLEAN, {256})

NextOrder == EnqueueOrder \/ poll_queue \/ run_job

SpecOrder == Init /\ [][NextOrder]_vars

\* SpecConfig: every preset of the combobox with every combination of prompts.
EnqueueConfig ==
    Generate(MaxConfigJobs, {<<>>, <<"a">>}, {<<>>, <<"p">>}, {"out"}, DefaultOutputs,
             {FALSE}, {256})

SelectPreset == select_config_preset(config_options)

NextConfig == EnqueueConfig \/ poll_queue \/ SelectPreset \/ run_job

SpecConfig == Init /\ [][NextConfig]_vars

\* SpecPreset: the user switches between two presets while text jobs are
\* submitted, wait and run.
EnqueuePreset ==
    Generate(MaxPresetJobs, {<<>>, <<"a">>}, {<<>>}, {"out"}, DefaultOutputs, {FALSE}, {256})

SwitchPreset == select_config_preset({"auto", "image.yaml"})

NextPreset == EnqueuePreset \/ poll_queue \/ SwitchPreset \/ run_job

SpecPreset == Init /\ [][NextPreset]_vars

\* SpecOptions: one text job with every combination of the three output
\* check boxes, the voxel check box and the voxel resolution.
EnqueueOptions ==
    Generate(MaxOptionJobs, {<<"a">>}, {<<>>}, {"out"}, BOOLEAN \X BOOLEAN \X BOOLEAN,
             BOOLEAN, voxel_res_values)

NextOptions == EnqueueOptions \/ poll_queue \/ run_job

SpecOptions == Init /\ [][NextOptions]_vars

\* ---------------------------------------------------------------- claims

\* Python's truth value of a string of white space after strip().
IsBlank(s) == \A i \in DOMAIN s : s[i] = " "

\* The jobs that were accepted and whose run_job has not returned.
LiveJobs == {jobs[i] : i \in DOMAIN jobs} \cup {t.job : t \in threads}

\* C1: at every instant at most one job is running: there is never more than
\* one thread that process_next_job started and that has not yet cleared
\* self.processing.
C1_AtMostOneRunning == Cardinality(threads) <= 1

\* A job runs while the next one, submitted meanwhile, waits in the queue.
C1_Witness == Cardinality(threads) = 1 /\ jobs # <<>> /\ processing

\* C2: the generation tool is started for the jobs in the order of their
\* submission (the i-th start is that of the i-th accepted job), and when the
\* tool is started for a job, run_job has returned for every job before it.
C2_FifoOrder ==
    \A i \in DOMAIN genLog :
        /\ genLog[i] = i
        /\ i < Len(genLog) => genLog[i] \in finished

\* The tool was started for a third job, which had waited with the second.
C2_Witness == Len(genLog) = 3 /\ 2 \in finished /\ jobs = <<>>

\* C3: a click on Generate with both prompts blank after trimming leaves the
\* queue, the list box, self.processing and the set of threads as they were.
C3_RejectionChangesNothing ==
    [][\A text_in \in {x \in TextInputs : IsBlank(x)}, img_in \in {x \in BlankInputs : IsBlank(x)},
          out_dir \in OutDirInputs, voxel_mode \in BOOLEAN :
            enqueue_job(text_in, img_in, out_dir, TRUE, FALSE, TRUE, voxel_mode, 256)
            => UNCHANGED <<jobs, job_list, processing, threads, nextSeq>>]_vars

\* The last click was rejected while a job was waiting and another running.
C3_Witness == submitResult = "rejected" /\ jobs # <<>> /\ threads # {}

\* C4: under FairSpec every accepted job is run to the end of run_job, and
\* self.processing, once set, is cleared again.
C4_EveryJobRuns ==
    /\ \A s \in 1..MaxJobs : (nextSeq > s) ~> (s \in finished)
    /\ processing ~> ~processing

\* The second job runs after the first one has failed.
C4_Witness ==
    /\ notified = <<1>>
    /\ messagebox.kind = "showerror"
    /\ \E t \in threads : t.job.seq = 2 /\ t.pc = "subprocess"

\* The dialog of a failed generation.
GenerationFailedBox ==
    [kind |-> "showerror", title |-> "Error",
     text |-> <<"Job failed: ", "DreamGaussian failed!">>, paths |-> <<>>]

\* The number of dialogs shown for job s.
Notifications(s) == Cardinality({i \in DOMAIN notified : notified[i] = s})

C6_PresetFixedAtSubmission ==
    \A t \in threads : t.preset # None => t.preset = t.job.submitted_preset

\* C7: the config run_dreamgaussian uses is, for preset "auto", imagedream.yaml
\* with both prompts, text.yaml with a text only and image.yaml with an image
\* only, and for any other preset that preset, in the configs directory.
C7_ConfigResolution ==
    \A t \in threads :
        t.config # Nothing =>
            LET hasText == t.job.text # <<>>
                hasImage == t.job.img # <<>>
                name == CASE t.preset # "auto" -> t.preset
                          [] t.preset = "auto" /\ hasText /\ hasImage -> "imagedream.yaml"
                          [] t.preset = "auto" /\ hasText /\ ~hasImage -> "text.yaml"
                          [] t.preset = "auto" /\ ~hasText /\ hasImage -> "image.yaml"
            IN  t.config = <<"configs", name>>

\* A job with both prompts is run with the override text.yaml.
C7_Witness ==
    \E t \in threads :
        /\ t.job.text # <<>> /\ t.job.img # <<>>
        /\ t.preset = "text.yaml"
        /\ t.config = <<"configs", "text.yaml">>

\* C8: two accepted jobs for the same output directory have different mesh
\* names.
C8_MeshNamesUnique ==
    \A j1, j2 \in LiveJobs :
        (j1.seq # j2.seq /\ j1.out_dir = j2.out_dir) => j1.mesh_name # j2.mesh_name

\* C9: a click on Generate with a prompt that is not blank appends a job to
\* the queue, whatever the output folder entry holds.
C9_AcceptedUnlessBlank ==
    [][\A text_in \in TextInputs, img_in \in BlankInputs, out_dir \in OutDirInputs,
          voxel_mode \in BOOLEAN :
            (/\ ~(IsBlank(text_in) /\ IsBlank(img_in))
             /\ enqueue_job(text_in, img_in, out_dir, TRUE, FALSE, TRUE, voxel_mode, 256))
            => /\ submitResult' = "accepted"
               /\ nextSeq' = nextSeq + 1
               /\ \E j \in {jobs'[i] : i \in DOMAIN jobs'} \cup {t.job : t \in threads'} :
                    j.seq = nextSeq]_vars

\* C10: the state of the user interface (preview label, preview mesh path,
\* list box, dialogs) changes only in callbacks of the Tk main loop.
C10_UiOwnedByMainLoop ==
    [][(\/ preview_label' # preview_label
        \/ preview_mesh_path' # preview_mesh_path
        \/ job_list' # job_list
        \/ messagebox' # messagebox
        \/ notified' # notified) => MainLoop]_vars

\* The generation tool of the job of thread t has returned a failure.
GenerationFailed(t) == t.result # Nothing /\ t.result[1].returncode # 0

\* The preview is as it was when thread t was created.
PreviewUntouched(t) ==
    /\ preview_mesh_path = t.before.preview_mesh_path
    /\ preview_label = t.before.preview_label

\* C11: obj_to_vox is called only for a job submitted with voxel_mode set,
\* only after the generation of that job has succeeded, and with the
\* voxel_res the job was submitted with; a job without voxel_mode never
\* reaches the conversion; after a failed generation there is no conversion,
\* no change of the preview and no success dialog.
C11_VoxelOnlyAfterGeneration ==
    \A t \in threads :
        /\ t.vox_call # Nothing =>
                /\ t.job.voxel_mode
                /\ t.result # Nothing /\ t.result[1].returncode = 0
                /\ t.vox_call[1].resolution = t.job.voxel_res
                /\ t.vox_call[1].obj_path = ObjPath(t.job.out_dir, t.job.mesh_name)
        /\ ~t.job.voxel_mode => (t.vox_call = Nothing /\ t.pc # "obj_to_vox")
        /\ GenerationFailed(t) =>
                /\ t.vox_call = Nothing
                /\ t.pc \in {"except", "finally"}
                /\ PreviewUntouched(t)
                /\ t.pc = "finally" =>
                        (messagebox.kind = "showerror" /\ Notifications(t.job.seq) = 1)

\* A job submitted with resolution 512 has been converted and reported.
C11_Witness ==
    \E t \in threads :
        /\ t.pc = "finally" /\ t.ex = None
        /\ t.vox_call # Nothing /\ t.vox_call[1].resolution = 512
        /\ messagebox.kind = "showinfo"

\* Number of jobs process_next_job has taken from the queue so far.
Dispatched == Cardinality(finished) + Cardinality(threads)

\* C12: the job a thread runs is not in the pending queue, and the queue
\* holds exactly the accepted jobs not yet dispatched, in the order they
\* were accepted.
C12_PendingExactlyUndispatched ==
    /\ \A t \in threads : \A i \in DOMAIN jobs : jobs[i].seq # t.job.seq
    /\ Len(jobs) = (nextSeq - 1) - Dispatched
    /\ \A i \in DOMAIN jobs : jobs[i].seq = Dispatched + i

\* The first job runs while the second and the third wait.
C12_Witness ==
    /\ Len(jobs) = 2
    /\ \E t \in threads : t.job.seq = 1 /\ t.pc = "subprocess"

\* The paths listed by the last dialog.
ReportedPaths == {messagebox.paths[i] : i \in DOMAIN messagebox.paths}

\* C13: for every combination of the three output check boxes and of the
\* voxel check box, the success dialog of a job lists the mesh path, the
\* texture path exactly when texture_only or mesh_and_texture was set, the
\* voxel path exactly when voxel_mode was set, and nothing else.
C13_ResultAssembly ==
    \A t \in threads :
        (t.pc = "finally" /\ t.ex = None) =>
            LET obj == ObjPath(t.job.out_dir, t.job.mesh_name)
                tex == TexPath(t.job.out_dir, t.job.mesh_name)
                vox == VoxPath(t.job.out_dir, t.job.mesh_name, t.job.voxel_res)
            IN  /\ messagebox.kind = "showinfo"
                /\ obj \in ReportedPaths
                /\ tex \in ReportedPaths <=> (t.job.texture_only \/ t.job.mesh_and_texture)
                /\ vox \in ReportedPaths <=> t.job.voxel_mode
                /\ ReportedPaths \subseteq {obj, tex, vox}
                /\ Len(messagebox.paths) = Cardinality(ReportedPaths)

\* A job with texture_only alone and voxel export is reported with three
\* paths.
C13_Witness ==
    \E t \in threads :
        /\ t.pc = "finally" /\ t.ex = None
        /\ ~t.job.mesh_only /\ t.job.texture_only /\ ~t.job.mesh_and_texture
        /\ t.job.voxel_mode
        /\ Len(messagebox.paths) = 3

\* show_preview of thread t has ended without an image.
PreviewFailed(t) == t.preview_result \notin {None, "image"}

\* What a ttk.Label displays: its image if it has one, otherwise its text
\* (the compound option is left at its default).  The label shows the text s.
ShowsText(label, s) == label.image = Nothing /\ label.text = s

\* C14: a job whose preview could not be rendered is still reported with
\* the success dialog and no error dialog, and the preview label shows the
\* error text.
C14_PreviewFailureNonFatal ==
    \A t \in threads :
        (t.pc = "finally" /\ PreviewFailed(t)) =>
            /\ t.ex = None
            /\ messagebox.kind = "showinfo"
            /\ Notifications(t.job.seq) = 1
            /\ ShowsText(preview_label, t.preview_result)

\* C15: self.processing is TRUE exactly while a run_job thread is alive:
\* from the dispatch of a job until its run_job has returned, the dialog
\* included, and FALSE whenever no run_job is executing.
C15_MarkerAgreesWithWorker ==
    /\ processing <=> threads # {}
    /\ \A t \in threads : t.job.seq \notin finished

\* The second job is in its error dialog, after the marker was cleared for
\* the first job and set again.
C15_Witness ==
    /\ processing
    /\ 1 \in finished
    /\ \E t \in threads : t.job.seq = 2 /\ t.pc = "finally" /\ t.ex # None

\* C16: the list box has one entry per pending job, and its i-th entry
\* names the mesh of the i-th pending job.
C16_ListMatchesQueue ==
    /\ Len(job_list) = Len(jobs)
    /\ \A i \in DOMAIN jobs : job_list[i][3] = jobs[i].mesh_name

\* Two jobs with different mesh names wait.
C16_Witness ==
    /\ Len(jobs) = 2
    /\ jobs[1].mesh_name # jobs[2].mesh_name
    /\ threads # {}

\* C17: a job that failed (in the generation or in the voxel conversion)
\* leaves preview_mesh_path and the preview label as they were when it
\* started, so that 'Open 3D Viewer' does what it did before; and a job
\* that has run was given exactly one dialog.
C17_FailedJobKeepsPreview ==
    /\ \A t \in threads :
            /\ t.ex # None =>
                    /\ PreviewUntouched(t)
                    /\ open_preview_window(preview_mesh_path)
                            = open_preview_window(t.before.preview_mesh_path)
            /\ t.pc = "finally" => Notifications(t.job.seq) = 1
            /\ t.pc # "finally" => Notifications(t.job.seq) = 0
    /\ \A s \in finished : Notifications(s) = 1
    /\ \A i \in DOMAIN jobs : Notifications(jobs[i].seq) = 0

\* The second job failed in the voxel conversion after the first job had
\* set the preview.
C17_Witness ==
    \E t \in threads :
        /\ t.pc = "finally" /\ t.job.seq = 2
        /\ t.vox_call # Nothing /\ t.ex # None
        /\ preview_mesh_path # Nothing
        /\ preview_label.image # Nothing
====
